---- MODULE Spec2Model ----
(***************************************************************************)
(* papermorph: style profiling (style_extractor.py), content structuring   *)
(* (mapper.py), HTML rendering (formatter.py) and the apply-style request  *)
(* (api/v1/apply_style.py).                                                *)
(*                                                                         *)
(* Representation.  A Python str is a sequence of one-character strings;   *)
(* the bullet glyph U+2022 is written "u2022".  A Python dict is a record  *)
(* (the empty dict is << >>), d.get(k, default) is Get(d, k, default).     *)
(* A size value is a tagged record: None, I(n) for the int n, F(h) for the *)
(* float h/2 (so F(25) is 12.5), Text(s) for a str where a str and None may *)
(* both occur; Unparseable is the str "abc".                               *)
(***************************************************************************)
EXTENDS Integers, Sequences, FiniteSets, TLC

VARIABLES
    pc,            \* position of the running call
    sample_spans,  \* spans of the reference document (build_style_profile input)
    input_spans,   \* spans of the input document (apply_style_upload)
    blocks,        \* text blocks, one per page
    style_profile, \* the style profile in use
    spans,         \* spans handed to build_content_structure_from_spans
    source,        \* "spans" or "blocks": which structurer runs
    bi,            \* number of blocks already structured
    lines,         \* trimmed non-empty lines of the current block
    k,             \* number of spans (lines) of the current loop already processed
    para_buffer,
    list_buffer,
    in_list,
    nodes,         \* the content structure built so far
    built,         \* history: for each node, the buffer contents it was built from
    title,
    body_parts,
    html_doc,
    probe,         \* span given to infer_role_for_span
    role,          \* its result
    reprofile      \* build_style_profile(style_profile["sample_texts"])

vars == <<pc, sample_spans, input_spans, blocks, style_profile, spans, source, bi,
          lines, k, para_buffer, list_buffer, in_list, nodes, built, title,
          body_parts, html_doc, probe, role, reprofile>>

----------------------------------------------------------------------------
(* Bounds of the model *)

MaxSpans == 4       \* longest span sequence given to a structurer
MaxProfileSpans == 4  \* longest span sequence given to build_style_profile
MaxBlocks == 2      \* most text blocks (pages)
MaxNodes == 2       \* longest node sequence given to render_html
MaxInputSpans == 2  \* longest input document of an apply-style request
MaxListSpans == 4   \* longest short document given to the list-style detection

----------------------------------------------------------------------------
(* Python values *)

None == [k |-> "None"]
I(n) == [k |-> "int", v |-> n]
F(h) == [k |-> "float", h |-> h]
Text(s) == [k |-> "str", s |-> s]
Unparseable == Text(<<"a", "b", "c">>)   \* a str that float() rejects

Get(d, key, default) == IF key \in DOMAIN d THEN d[key] ELSE default

Max2(a, b) == IF a >= b THEN a ELSE b
Min2(a, b) == IF a <= b THEN a ELSE b

\* round(num/den) for num >= 0, den > 0: Python rounds halves to the even integer
RoundHalfEven(num, den) ==
    LET q == num \div den
        r == num % den
    IN  IF 2 * r < den THEN q
        ELSE IF 2 * r > den THEN q + 1
        ELSE IF q % 2 = 0 THEN q ELSE q + 1

\* bool(x) of a size value
Truthy(x) ==
    CASE x.k = "None" -> FALSE
      [] x.k = "int" -> x.v # 0
      [] x.k = "float" -> x.h # 0
      [] x.k = "str" -> x.s # << >>

----------------------------------------------------------------------------
(* Characters and strings *)

BULLET == "u2022"
SpaceChars == {" ", "\n", "\t"}
DigitChars == {"0", "1", "2", "3", "4", "5", "6", "7", "8", "9"}
UpperChars == {"A", "B", "C", "D", "E", "F", "G", "H", "I", "J", "K", "L", "M",
               "N", "O", "P", "Q", "R", "S", "T", "U", "V", "W", "X", "Y", "Z"}
LowerChars == {"a", "b", "c", "d", "e", "f", "g", "h", "i", "j", "k", "l", "m",
               "n", "o", "p", "q", "r", "s", "t", "u", "v", "w", "x", "y", "z"}

DigitOf(d) == CASE d = 0 -> "0" [] d = 1 -> "1" [] d = 2 -> "2" [] d = 3 -> "3"
                [] d = 4 -> "4" [] d = 5 -> "5" [] d = 6 -> "6" [] d = 7 -> "7"
                [] d = 8 -> "8" [] d = 9 -> "9"
ValueOf(c) == CHOOSE d \in 0..9 : DigitOf(d) = c

\* str(n) of an int
RECURSIVE StrNat(_)
StrNat(n) == IF n < 10 THEN <<DigitOf(n)>> ELSE StrNat(n \div 10) \o <<DigitOf(n % 10)>>
Str(n) == IF n < 0 THEN <<"-">> \o StrNat(0 - n) ELSE StrNat(n)

\* s.strip()
Strip(s) ==
    LET keep == {i \in 1..Len(s) : s[i] \notin SpaceChars}
    IN  IF keep = {} THEN << >>
        ELSE LET a == CHOOSE i \in keep : \A j \in keep : i <= j
                 b == CHOOSE i \in keep : \A j \in keep : i >= j
             IN  SubSeq(s, a, b)

\* " ".join(parts)
RECURSIVE Join(_)
Join(parts) ==
    IF parts = << >> THEN << >>
    ELSE IF Len(parts) = 1 THEN parts[1]
    ELSE parts[1] \o <<" ">> \o Join(Tail(parts))

\* s.splitlines(), for the line break "\n"
RECURSIVE SplitLines(_)
SplitLines(s) ==
    IF s = << >> THEN << >>
    ELSE LET brk == {i \in 1..Len(s) : s[i] = "\n"}
         IN  IF brk = {} THEN <<s>>
             ELSE LET i == CHOOSE x \in brk : \A y \in brk : x <= y
                  IN  <<SubSeq(s, 1, i - 1)>> \o SplitLines(SubSeq(s, i + 1, Len(s)))

\* s.split(): the maximal runs of non-space characters; only their number is used
WordCount(s) ==
    Cardinality({i \in 1..Len(s) :
        s[i] \notin SpaceChars /\ (i = 1 \/ s[i - 1] \in SpaceChars)})

\* s.isupper(): some cased character, and no lower-case one
IsUpper(s) ==
    /\ \E i \in 1..Len(s) : s[i] \in UpperChars
    /\ \A i \in 1..Len(s) : s[i] \notin LowerChars

\* sorted(seq), ascending: position i holds the value v with fewer than i
\* elements below it and at least i elements not above it
Sorted(seq) ==
    [i \in 1..Len(seq) |->
        CHOOSE v \in {seq[j] : j \in 1..Len(seq)} :
            /\ Cardinality({j \in 1..Len(seq) : seq[j] < v}) < i
            /\ Cardinality({j \in 1..Len(seq) : seq[j] <= v}) >= i]

Range(seq) == {seq[i] : i \in 1..Len(seq)}
MaxOf(seq) == CHOOSE x \in Range(seq) : \A y \in Range(seq) : x >= y
MinOf(seq) == CHOOSE x \in Range(seq) : \A y \in Range(seq) : x <= y

\* how many characters of s, from index from on, lie in set without a break
RunLength(s, from, set) ==
    Cardinality({i \in from..Len(s) : \A j \in from..i : s[j] \in set})

----------------------------------------------------------------------------
(* style_extractor.py *)

SAMPLE_TEXTS_LIMIT == 30

\* _round_size: int(round(float(n))), None when that raises
round_size(n) ==
    CASE n.k = "int" -> n
      [] n.k = "float" -> I(RoundHalfEven(n.h, 2))
      [] OTHER -> None

\* statistics.quantiles(data, n=n)[i - 1] (method 'exclusive') of sorted data,
\* already rounded: int(round(...))
RoundedQuantile(data, n, i) ==
    LET ld == Len(data)
        m == ld + 1
        j0 == (i * m) \div n
        j == IF j0 < 1 THEN 1 ELSE IF j0 > ld - 1 THEN ld - 1 ELSE j0
        delta == i * m - j * n
    IN  RoundHalfEven(data[j] * (n - delta) + data[j + 1] * delta, n)

\* int(round(statistics.median(data))) of sorted data
RoundedMedian(data) ==
    LET n == Len(data)
    IN  IF n % 2 = 1 THEN data[(n \div 2) + 1]
        ELSE RoundHalfEven(data[n \div 2] + data[(n \div 2) + 1], 2)

\* _size_percentiles
size_percentiles(sizes) ==
    LET sizes_sorted == Sorted(sizes)
        n == Len(sizes_sorted)
    IN  IF n = 0 THEN << >>
        ELSE [p90 |-> IF n >= 100 THEN RoundedQuantile(sizes_sorted, 100, 90)
                      ELSE MaxOf(sizes_sorted),
              p75 |-> IF n >= 4 THEN RoundedQuantile(sizes_sorted, 4, 3)
                      ELSE sizes_sorted[Max2(0, n - 2) + 1],
              p50 |-> RoundedMedian(sizes_sorted),
              p25 |-> sizes_sorted[Max2(0, n \div 4) + 1],
              min |-> MinOf(sizes_sorted),
              max |-> MaxOf(sizes_sorted)]

\* "if size:" of the loop of build_style_profile
HasSize(s) == Truthy(round_size(Get(s, "size", None)))

\* the sizes list of build_style_profile: the rounded sizes that are truthy
CollectSizes(sp) ==
    LET sized == SelectSeq(sp, HasSize)
    IN  [i \in 1..Len(sized) |-> round_size(sized[i].size).v]

\* "text.strip()" of the loop of build_style_profile
HasText(s) == Strip(Get(s, "text", << >>)) # << >>

\* mutant: the sample keeps int(size), the size cut off, not rounded
CollectSamplesCutSize(sp) ==
    LET texted == SelectSeq(sp, HasText)
    IN  [i \in 1..Min2(Len(texted), SAMPLE_TEXTS_LIMIT) |->
            [font |-> Get(texted[i], "font", "Unknown"),
             size |-> IF Get(texted[i], "size", None).k = "float"
                      THEN I(texted[i].size.h \div 2)
                      ELSE round_size(Get(texted[i], "size", None)),
             text |-> Strip(texted[i].text)]]

\* the sample_texts list of build_style_profile: the first spans with text
CollectSamples(sp) ==
    LET texted == SelectSeq(sp, HasText)
    IN  [i \in 1..Min2(Len(texted), SAMPLE_TEXTS_LIMIT) |->
            [font |-> Get(texted[i], "font", "Unknown"),
             size |-> round_size(Get(texted[i], "size", None)),
             text |-> Strip(texted[i].text)]]

\* the non-ASCII glyphs of BULLET_CANDIDATES, one token each
EN_DASH == "u2013"
EM_DASH == "u2014"
MIDDLE_DOT == "u00b7"

BULLET_CANDIDATES == {BULLET, "-", EN_DASH, EM_DASH, "*", MIDDLE_DOT}

\* the default of the parameter sample_limit
SAMPLE_LIMIT == 200

\* the texts the loop of _detect_bullet_from_texts gets to before its break
ScannedTexts(sp) ==
    LET texted == SelectSeq(sp, HasText)
    IN  [i \in 1..Min2(Len(texted), SAMPLE_LIMIT) |-> Strip(texted[i].text)]

\* the value of count when the loop ends: the text after the limit is counted
\* before the break
FinalCount(sp) ==
    LET n == Len(SelectSeq(sp, HasText))
    IN  IF n > SAMPLE_LIMIT THEN SAMPLE_LIMIT + 1 ELSE n

\* re.match(r"^[-\*•]\s+", txt)
DashLead(txt) == txt[1] \in {"-", "*", BULLET} /\ Len(txt) >= 2 /\ txt[2] \in SpaceChars

\* re.match(r"^\d+\.\s+", txt) or re.match(r"^[a-zA-Z]\)\s+", txt)
NumberLead(txt) ==
    LET digits == RunLength(txt, 1, DigitChars)
    IN  \/ /\ digits >= 1 /\ Len(txt) >= digits + 2
           /\ txt[digits + 1] = "." /\ txt[digits + 2] \in SpaceChars
        \/ /\ Len(txt) >= 3 /\ txt[1] \in UpperChars \cup LowerChars
           /\ txt[2] = ")" /\ txt[3] \in SpaceChars

\* bullets[g] after the loop: one for the first character, one more for the
\* dash pattern
BulletHits(txts, g) ==
    Cardinality({i \in 1..Len(txts) : txts[i][1] = g})
    + Cardinality({i \in 1..Len(txts) : txts[i][1] = g /\ DashLead(txts[i])})

\* the place of g in Counter.most_common: by count, ties in insertion order
BulletRank(txts, g) ==
    LET found == {h \in BULLET_CANDIDATES : BulletHits(txts, h) > 0}
        seen(h) == CHOOSE i \in 1..Len(txts) :
                       txts[i][1] = h /\ \A j \in 1..(i - 1) : txts[j][1] # h
    IN  1 + Cardinality({h \in found :
                \/ BulletHits(txts, h) > BulletHits(txts, g)
                \/ BulletHits(txts, h) = BulletHits(txts, g) /\ seen(h) < seen(g)})

\* _detect_bullet_from_texts
detect_bullet_from_texts(sp) ==
    LET txts == ScannedTexts(sp)
        found == {g \in BULLET_CANDIDATES : \E i \in 1..Len(txts) : txts[i][1] = g}
    IN  [bullets |-> [r \in 1..Min2(3, Cardinality(found)) |->
                         CHOOSE g \in found : BulletRank(txts, g) = r],
         numbered |-> \E i \in 1..Len(txts) : NumberLead(txts[i]),
         sample_count |-> FinalCount(sp)]

\* mutant: a size equal to a percentile falls into the class below it
SizeRoleAbove(s, p90, p75, p50) ==
    IF p90 # 0 /\ s > p90 THEN <<"H", "1">>
    ELSE IF p75 # 0 /\ s > p75 THEN <<"H", "2">>
    ELSE IF p50 # 0 /\ s > p50 THEN <<"H", "3">>
    ELSE <<"P">>

\* the role size_map gives to an observed size
SizeRole(s, p90, p75, p50) ==
    IF p90 # 0 /\ s >= p90 THEN <<"H", "1">>
    ELSE IF p75 # 0 /\ s >= p75 THEN <<"H", "2">>
    ELSE IF p50 # 0 /\ s >= p50 THEN <<"H", "3">>
    ELSE <<"P">>

\* mutant: a heading is a size above the percentile ("> p90 -> H1")
HeadingRulesAbove(percentiles, sizes) ==
    << [level |-> 1, min_size |-> percentiles.p90 + 1],
       [level |-> 2, min_size |-> percentiles.p75 + 1],
       [level |-> 3, min_size |-> percentiles.p50 + 1] >>

\* the heading_rules list built from the percentiles
HeadingRules(percentiles, sizes) ==
    LET p90 == percentiles.p90
        p75 == percentiles.p75
        p50 == percentiles.p50
    IN  << [level |-> 1, min_size |-> IF p90 # 0 THEN p90 ELSE MaxOf(sizes)],
           [level |-> 2, min_size |-> IF p75 # 0 THEN p75 ELSE percentiles.p50],
           [level |-> 3, min_size |-> IF p50 # 0 THEN p50 ELSE percentiles.p25] >>

\* mutant: without percentiles the profile is the empty mapping
build_style_profile_or_empty(sp) ==
    IF sp = << >> \/ CollectSizes(sp) = << >> THEN << >>
    ELSE LET sizes == CollectSizes(sp)
             percentiles == size_percentiles(sizes)
             keys == {Str(s) : s \in Range(sizes)}
         IN  [size_percentiles |-> percentiles,
              size_map |->
                  [key \in keys |->
                      SizeRole(CHOOSE s \in Range(sizes) : Str(s) = key,
                               percentiles.p90, percentiles.p75, percentiles.p50)],
              heading_rules |-> HeadingRules(percentiles, sizes),
              list_style |-> detect_bullet_from_texts(sp),
              sample_texts |-> CollectSamples(sp)]

build_style_profile(sp) ==
    IF sp = << >> THEN << >>
    ELSE LET sizes == CollectSizes(sp)
             percentiles == size_percentiles(sizes)
             keys == {Str(s) : s \in Range(sizes)}
         IN  [size_percentiles |-> percentiles,
              size_map |->
                  IF percentiles = << >> THEN << >>
                  ELSE [key \in keys |->
                          SizeRole(CHOOSE s \in Range(sizes) : Str(s) = key,
                                   percentiles.p90, percentiles.p75, percentiles.p50)],
              heading_rules |->
                  IF percentiles = << >> THEN << >> ELSE HeadingRules(percentiles, sizes),
              list_style |-> detect_bullet_from_texts(sp),
              sample_texts |-> CollectSamples(sp)]

\* mutant: the loop keeps going, so the last rule that matches wins
RECURSIVE RuleScanLast(_, _, _)
RuleScanLast(rules, size, no_match) ==
    IF rules = << >> THEN no_match
    ELSE RuleScanLast(Tail(rules), size,
             IF size >= Get(rules[1], "min_size", 0) THEN <<"H">> \o Str(rules[1].level)
             ELSE no_match)

\* mutant: "size > min_size" for "size >= min_size"
RECURSIVE RuleScanStrict(_, _, _)
RuleScanStrict(rules, size, no_match) ==
    IF rules = << >> THEN no_match
    ELSE IF size > Get(rules[1], "min_size", 0) THEN <<"H">> \o Str(rules[1].level)
    ELSE RuleScanStrict(Tail(rules), size, no_match)

\* the loop of infer_role_for_span over heading_rules; no_match is what the
\* size_map lookup gives
RECURSIVE RuleScan(_, _, _)
RuleScan(rules, size, no_match) ==
    IF rules = << >> THEN no_match
    ELSE IF size >= Get(rules[1], "min_size", 0) THEN <<"H">> \o Str(rules[1].level)
    ELSE RuleScan(Tail(rules), size, no_match)

infer_role_for_span(span, profile) ==
    LET size == round_size(Get(span, "size", None))
    IN  IF ~Truthy(size) \/ profile = << >> THEN <<"P">>
        ELSE RuleScan(Get(profile, "heading_rules", << >>), size.v,
                      Get(Get(profile, "size_map", << >>), Str(size.v), <<"P">>))

----------------------------------------------------------------------------
(* mapper.py *)

\* length of the match of LIST_LEAD_RE at the start of s, 0 when it does not match:
\* a bullet, "-" or "*", or digits and ".", then white space
ListLeadLen(s) ==
    LET digits == RunLength(s, 1, DigitChars)
        lead == IF s = << >> THEN 0
                ELSE IF s[1] \in {BULLET, "-", "*"} THEN 1
                ELSE IF digits >= 1 /\ Len(s) > digits /\ s[digits + 1] = "." THEN digits + 1
                ELSE 0
        space == RunLength(s, lead + 1, SpaceChars)
    IN  IF lead = 0 \/ space = 0 THEN 0 ELSE lead + space

\* _is_list_line
is_list_line(text) == text # << >> /\ ListLeadLen(Strip(text)) > 0

\* _strip_list_lead
strip_list_lead(text) ==
    LET s == Strip(text) IN SubSeq(s, ListLeadLen(s) + 1, Len(s))

\* the size field spans_group_by_line stores, for a size that is None or a number
GroupedSize(size) ==
    IF ~Truthy(size) THEN None
    ELSE IF size.k = "int" THEN size
    ELSE I(RoundHalfEven(size.h, 2))

\* page and font are copied as they are and read by no one: they are left out
RECURSIVE spans_group_by_line(_)
spans_group_by_line(sp) ==
    IF sp = << >> THEN << >>
    ELSE LET s == sp[1]
             text == Strip(Get(s, "text", << >>))
         IN  (IF text = << >> THEN << >>
              ELSE << [size |-> GroupedSize(Get(s, "size", None)), text |-> text] >>)
             \o spans_group_by_line(Tail(sp))

\* the heading level read from a role such as "H1": int(role[1]), 1 when that raises
RoleLevel(r) ==
    IF Len(r) >= 2 /\ r[2] \in DigitChars THEN ValueOf(r[2]) ELSE 1

ParagraphNode(buffer) == [type |-> "paragraph", text |-> Join(buffer)]
ListNode(buffer) == [type |-> "list", ordered |-> FALSE, items |-> buffer]
HeadingNode(level, text) == [type |-> "heading", level |-> level, text |-> text]

\* The state of a structuring loop: st.nodes, st.para_buffer, st.list_buffer,
\* st.in_list, and the history st.built.
StartState ==
    [nodes |-> << >>, built |-> << >>, para_buffer |-> << >>,
     list_buffer |-> << >>, in_list |-> FALSE]

\* "if para_buffer: nodes.append(paragraph); para_buffer = []"
FlushParagraph(st) ==
    IF st.para_buffer # << >>
    THEN [st EXCEPT !.nodes = Append(@, ParagraphNode(st.para_buffer)),
                    !.built = Append(@, st.para_buffer),
                    !.para_buffer = << >>]
    ELSE st

\* mutant: the list branch without the paragraph flush
ListLineKeepsParagraph(st, text) ==
    LET item == strip_list_lead(text)
    IN  IF ~st.in_list THEN [st EXCEPT !.list_buffer = <<item>>, !.in_list = TRUE]
        ELSE [st EXCEPT !.list_buffer = Append(@, item)]

\* the list branch of both loops
ListLine(st, text) ==
    LET f == FlushParagraph(st)
        item == strip_list_lead(text)
    IN  IF ~f.in_list THEN [f EXCEPT !.list_buffer = <<item>>, !.in_list = TRUE]
        ELSE [f EXCEPT !.list_buffer = Append(@, item)]

\* mutant: the pending list becomes a node and the buffer is not cleared
LeaveListKeepsItems(st, text) ==
    IF st.in_list /\ ~is_list_line(text)
    THEN [st EXCEPT !.nodes = Append(@, ListNode(st.list_buffer)),
                    !.built = Append(@, st.list_buffer),
                    !.in_list = FALSE]
    ELSE st

\* "if in_list and not _is_list_line(text)": the pending list becomes a node
LeaveList(st, text) ==
    IF st.in_list /\ ~is_list_line(text)
    THEN [st EXCEPT !.nodes = Append(@, ListNode(st.list_buffer)),
                    !.built = Append(@, st.list_buffer),
                    !.list_buffer = << >>,
                    !.in_list = FALSE]
    ELSE st

\* mutant: every non-heading line becomes a paragraph of its own
HeadingOrFragmentPerLine(st, is_heading, level, text) ==
    IF is_heading
    THEN LET f == FlushParagraph(st)
         IN  [f EXCEPT !.nodes = Append(@, HeadingNode(level, text)),
                       !.built = Append(@, <<text>>)]
    ELSE [st EXCEPT !.nodes = Append(@, ParagraphNode(<<text>>)),
                    !.built = Append(@, <<text>>)]

\* heading or paragraph fragment, after the list tests
HeadingOrFragment(st, is_heading, level, text) ==
    IF is_heading
    THEN LET f == FlushParagraph(st)
         IN  [f EXCEPT !.nodes = Append(@, HeadingNode(level, text)),
                       !.built = Append(@, <<text>>)]
    ELSE [st EXCEPT !.para_buffer = Append(@, text)]

\* one iteration of the loop of build_content_structure_from_spans
SpanStep(st, s, profile) ==
    LET r == infer_role_for_span(s, profile)
        text == Strip(Get(s, "text", << >>))
    IN  IF is_list_line(text) THEN ListLine(st, text)
        ELSE HeadingOrFragment(LeaveList(st, text), r[1] = "H", RoleLevel(r), text)

\* the two flushes after a loop
FinalFlush(st) ==
    LET a == IF st.in_list /\ st.list_buffer # << >>
             THEN [st EXCEPT !.nodes = Append(@, ListNode(st.list_buffer)),
                             !.built = Append(@, st.list_buffer)]
             ELSE st
    IN  IF a.para_buffer # << >>
        THEN [a EXCEPT !.nodes = Append(@, ParagraphNode(a.para_buffer)),
                       !.built = Append(@, a.para_buffer)]
        ELSE a

RECURSIVE SpanLoop(_, _, _)
SpanLoop(st, sp, profile) ==
    IF sp = << >> THEN st ELSE SpanLoop(SpanStep(st, sp[1], profile), Tail(sp), profile)

build_content_structure_from_spans(sp, profile) ==
    IF sp = << >> THEN << >> ELSE FinalFlush(SpanLoop(StartState, sp, profile)).nodes

\* "lines = [ln.strip() for ln in text.splitlines() if ln.strip()]"
RECURSIVE StrippedLines(_)
StrippedLines(ls) ==
    IF ls = << >> THEN << >>
    ELSE (IF Strip(ls[1]) = << >> THEN << >> ELSE <<Strip(ls[1])>>)
         \o StrippedLines(Tail(ls))
BlockLines(b) == StrippedLines(SplitLines(Get(b, "text", << >>)))

\* the heading heuristic of build_content_structure_from_text_blocks
LooksLikeHeading(ln) ==
    Len(ln) < 80 /\ (IsUpper(ln) \/ (ln[1] \in UpperChars /\ WordCount(ln) <= 6))

\* one iteration of the inner loop of build_content_structure_from_text_blocks
LineStep(st, ln) ==
    IF is_list_line(ln) THEN ListLine(st, ln)
    ELSE HeadingOrFragment(LeaveList(st, ln), LooksLikeHeading(ln), 2, ln)

\* a new block starts with fresh buffers; nodes are kept
NextBlock(st) ==
    [st EXCEPT !.para_buffer = << >>, !.list_buffer = << >>, !.in_list = FALSE]

RECURSIVE LineLoop(_, _)
LineLoop(st, ls) ==
    IF ls = << >> THEN st ELSE LineLoop(LineStep(st, ls[1]), Tail(ls))

RECURSIVE BlockLoop(_, _)
BlockLoop(st, bs) ==
    IF bs = << >> THEN st
    ELSE BlockLoop(FinalFlush(LineLoop(NextBlock(st), BlockLines(bs[1]))), Tail(bs))

build_content_structure_from_text_blocks(bs) == BlockLoop(StartState, bs).nodes

----------------------------------------------------------------------------
(* formatter.py.  A markup string is a sequence of tokens whose concatenation  *)
(* is the string: each literal piece of markup the code writes is one token,    *)
(* each character of escaped or verbatim content is one token.                  *)

\* html.escape(c) of one character
EscapeChar(c) ==
    CASE c = "&" -> "&amp;"
      [] c = "<" -> "&lt;"
      [] c = ">" -> "&gt;"
      [] c = "\"" -> "&quot;"
      [] c = "'" -> "&#x27;"
      [] OTHER -> c

\* _escape_text
escape_text(t) == [i \in 1..Len(t) |-> EscapeChar(t[i])]

CSS_LINES ==
    << "@page { size: A4; margin: 24mm 18mm 24mm 18mm; }",
       "@media print { html, body { height: 100%; } }",
       "body { font-family: system-ui, -apple-system, 'Segoe UI', Roboto, 'Helvetica Neue', Arial; color: #111; line-height:1.45; }",
       "div.document { max-width: 800px; margin: 0 auto; }",
       "p { margin: 8px 0; font-size: 12pt; }",
       "h1,h2,h3 { margin: 14px 0 8px; font-weight:700; }",
       ".page-break { page-break-after: always; break-after: page; }",
       "h1 { page-break-inside: avoid; }",
       "table { page-break-inside: avoid; }",
       "img { max-width: 100%; height: auto; }",
       "table{border-collapse:collapse;width:100%;margin:10px 0} table th, table td{border:1px solid #ddd;padding:8px;text-align:left;}",
       "ul, ol { margin: 6px 0 6px 24px; }" >>

\* "sep".join(parts) of token sequences
RECURSIVE JoinWith(_, _)
JoinWith(parts, sep) ==
    IF parts = << >> THEN << >>
    ELSE IF Len(parts) = 1 THEN parts[1]
    ELSE parts[1] \o <<sep>> \o JoinWith(Tail(parts), sep)

\* _build_css_from_profile; a font name is one token
build_css_from_profile(profile) ==
    LET fonts == Get(profile, "fonts_top", << >>)
        css_lines == [i \in 1..Len(CSS_LINES) |-> <<CSS_LINES[i]>>]
                     \o (IF fonts # << >>
                         THEN << <<"body { font-family: '" \o fonts[1].font \o "', sans-serif; }">> >>
                         ELSE << >>)
    IN  <<"<style>\n">> \o JoinWith(css_lines, "\n") \o <<"\n</style>">>

\* mutant: the paragraph text is written as it is
render_paragraph_unescaped(text) == <<"<p>">> \o text \o <<"</p>">>

render_paragraph(text) == <<"<p>">> \o escape_text(text) \o <<"</p>">>

RECURSIVE RenderRuns(_)
RenderRuns(runs) ==
    IF runs = << >> THEN << >>
    ELSE LET r == runs[1]
             txt == escape_text(Get(r, "text", << >>))
             bold == Get(r, "bold", FALSE)
             italic == Get(r, "italic", FALSE)
         IN  (IF bold /\ italic THEN <<"<strong><em>">> \o txt \o <<"</em></strong>">>
              ELSE IF bold THEN <<"<strong>">> \o txt \o <<"</strong>">>
              ELSE IF italic THEN <<"<em>">> \o txt \o <<"</em>">>
              ELSE txt)
             \o RenderRuns(Tail(runs))

render_paragraph_with_runs(runs) == <<"<p>">> \o RenderRuns(runs) \o <<"</p>">>

render_heading(text, level) ==
    LET lv == Max2(1, Min2(6, level))
    IN  <<"<h" \o DigitOf(lv) \o ">">> \o escape_text(text) \o <<"</h" \o DigitOf(lv) \o ">">>

RECURSIVE RenderItems(_)
RenderItems(items) ==
    IF items = << >> THEN << >>
    ELSE <<"<li>">> \o escape_text(items[1]) \o <<"</li>">> \o RenderItems(Tail(items))

render_list(items, ordered) ==
    <<IF ordered THEN "<ol>" ELSE "<ul>">> \o RenderItems(items)
    \o <<IF ordered THEN "</ol>" ELSE "</ul>">>

RECURSIVE RenderCells(_, _)
RenderCells(cells, th) ==
    IF cells = << >> THEN << >>
    ELSE (IF th THEN <<"<th>">> \o escape_text(cells[1]) \o <<"</th>">>
          ELSE <<"<td>">> \o escape_text(cells[1]) \o <<"</td>">>)
         \o RenderCells(Tail(cells), th)

RECURSIVE RenderRows(_, _, _)
RenderRows(rows, i, header) ==
    IF i > Len(rows) THEN << >>
    ELSE <<"<tr>">> \o RenderCells(rows[i], i = 1 /\ header) \o <<"</tr>">>
         \o RenderRows(rows, i + 1, header)

\* str.lower() of a node type
LowerType(t) ==
    CASE t = "Heading" -> "heading"
      [] t = "Paragraph" -> "paragraph"
      [] t = "List" -> "list"
      [] OTHER -> t

\* the markup render_html appends for one node, before its optional page break
NodeMarkup(node) ==
    LET ntype == LowerType(Get(node, "type", ""))
    IN  IF ntype \in {"heading", "title"}
        THEN render_heading(Get(node, "text", << >>), Get(node, "level", 1))
        ELSE IF ntype \in {"paragraph", "p", "text"}
        THEN (IF Get(node, "runs", << >>) # << >>
              THEN render_paragraph_with_runs(node.runs)
              ELSE render_paragraph(Get(node, "text", << >>)))
        ELSE IF ntype = "list"
        THEN render_list(Get(node, "items", << >>), Get(node, "ordered", FALSE))
        ELSE IF ntype = "table"
        THEN <<"<table>">> \o RenderRows(Get(node, "rows", << >>), 1, Get(node, "header", FALSE))
             \o <<"</table>">>
        ELSE IF ntype = "raw_html"
        THEN Get(node, "html", << >>)
        ELSE render_paragraph(IF Get(node, "text", << >>) # << >> THEN node.text
                              ELSE Get(node, "content", << >>))

\* the body_parts list of render_html after the title test
TitlePart(t) ==
    IF Truthy(t) THEN << <<"<h1>">> \o escape_text(t.s) \o <<"</h1>">> >> ELSE << >>

RECURSIVE NodeParts(_)
NodeParts(ns) ==
    IF ns = << >> THEN << >>
    ELSE << NodeMarkup(ns[1]) >>
         \o (IF Get(ns[1], "page_break_after", FALSE)
             THEN << <<"<div class='page-break'></div>">> >> ELSE << >>)
         \o NodeParts(Tail(ns))

\* mutant: the title is left out when the content already has a heading
BodyPartsOneHeading(content_structure, t) ==
    (IF \E i \in 1..Len(content_structure) :
            LowerType(Get(content_structure[i], "type", "")) \in {"heading", "title"}
     THEN << >> ELSE TitlePart(t))
    \o NodeParts(content_structure)

BodyParts(content_structure, t) == TitlePart(t) \o NodeParts(content_structure)

render_html(content_structure, profile, t) ==
    <<"<!doctype html><html><head><meta charset='utf-8'/>">>
    \o build_css_from_profile(profile)
    \o <<"</head><body>", "<div class='document'>">>
    \o JoinWith(BodyParts(content_structure, t), "\n")
    \o <<"</div></body></html>">>

----------------------------------------------------------------------------
(* api/v1/apply_style.py *)

\* mutant: the span-based structurer is used whenever extraction returned a list
SelectSourceNoFallback(grouped_spans) ==
    IF Len(grouped_spans) >= 0 THEN "spans" ELSE "blocks"

\* step 3 of apply_style_upload: which structurer runs
SelectSource(grouped_spans) == IF grouped_spans # << >> THEN "spans" ELSE "blocks"

\* "for n in content_structure: if n.get('type') in ('heading',): title = ...; break"
RECURSIVE FirstHeadingText(_)
FirstHeadingText(ns) ==
    IF ns = << >> THEN None
    ELSE IF Get(ns[1], "type", "") = "heading" THEN Text(Get(ns[1], "text", << >>))
    ELSE FirstHeadingText(Tail(ns))

----------------------------------------------------------------------------
(* Inputs *)

SeqsUpTo(S, n) == UNION {[1..m -> S] : m \in 0..n}

\* the spans of the example of section 8 and spans with list leads, padding,
\* blank text and no size
StructSpans ==
    { [size |-> I(24), text |-> <<"T", "i", "t", "l", "e">>],
      [size |-> I(12), text |-> <<"H", "e", "l", "l", "o", " ", "w", "o", "r", "l", "d", ".">>],
      [size |-> I(12), text |-> <<"-", " ", "i", "t", "e", "m", " ", "o", "n", "e">>],
      [size |-> I(12), text |-> <<"-", " ", "i", "t", "e", "m", " ", "t", "w", "o">>],
      [size |-> I(24), text |-> <<" ", "*", " ", " ", "b", "i", "g">>],
      [size |-> None, text |-> <<"1", "2", ".", " ", "n", "\t">>],
      [size |-> F(25), text |-> <<" ", "\t">>],
      [size |-> I(24), text |-> << >>] }

ExampleProfile == [heading_rules |-> << [level |-> 1, min_size |-> 20] >>]

StructProfiles ==
    { << >>,
      ExampleProfile,
      build_style_profile(<< [size |-> F(20), text |-> <<"a">>],
                             [size |-> F(24), text |-> <<"b">>],
                             [size |-> F(48), text |-> <<"c">>] >>) }

StructBlocks ==
    { [text |-> <<"H", "I", "\n", "-", " ", "a", "\n", "*", " ", "b", "\n", "c", " ", "d">>],
      [text |-> <<" ", "\n", "\n", " ", "x", " ", "\n">>],
      [text |-> << >>],
      [text |-> <<"1", ".", " ", "a", "\n", "O", "k">>] }

----------------------------------------------------------------------------
(* The structuring loops, step by step *)

St == [nodes |-> nodes, built |-> built, para_buffer |-> para_buffer,
       list_buffer |-> list_buffer, in_list |-> in_list]

SetSt(st) ==
    /\ nodes' = st.nodes
    /\ built' = st.built
    /\ para_buffer' = st.para_buffer
    /\ list_buffer' = st.list_buffer
    /\ in_list' = st.in_list

LoopInit ==
    /\ bi = 0 /\ lines = << >> /\ k = 0
    /\ para_buffer = << >> /\ list_buffer = << >> /\ in_list = FALSE
    /\ nodes = << >> /\ built = << >>

RenderInit == title = None /\ body_parts = << >> /\ html_doc = << >>
ProbeInit == probe = None /\ role = << >> /\ reprofile = << >>

inputVars == <<sample_spans, input_spans, blocks, style_profile, spans, source>>
renderVars == <<title, body_parts, html_doc>>
probeVars == <<probe, role, reprofile>>

\* one iteration of "for s in spans"
SpanIter ==
    /\ pc = "spans_loop" /\ k < Len(spans)
    /\ SetSt(SpanStep(St, spans[k + 1], style_profile))
    /\ k' = k + 1
    /\ UNCHANGED <<pc, bi, lines, inputVars, renderVars, probeVars>>

\* the end of build_content_structure_from_spans (also its early return)
SpanReturn ==
    /\ pc = "spans_loop" /\ k = Len(spans)
    /\ SetSt(IF spans = << >> THEN St ELSE FinalFlush(St))
    /\ pc' = "structured"
    /\ UNCHANGED <<k, bi, lines, inputVars, renderVars, probeVars>>

\* "for b in blocks": the lines of the next block, and fresh buffers
BlockStart ==
    /\ pc = "blocks_loop" /\ bi < Len(blocks)
    /\ lines' = BlockLines(blocks[bi + 1])
    /\ k' = 0
    /\ SetSt(NextBlock(St))
    /\ pc' = "lines_loop"
    /\ UNCHANGED <<bi, inputVars, renderVars, probeVars>>

\* one iteration of "for ln in lines"
LineIter ==
    /\ pc = "lines_loop" /\ k < Len(lines)
    /\ SetSt(LineStep(St, lines[k + 1]))
    /\ k' = k + 1
    /\ UNCHANGED <<pc, bi, lines, inputVars, renderVars, probeVars>>

\* the two flushes that end a block
BlockEnd ==
    /\ pc = "lines_loop" /\ k = Len(lines)
    /\ SetSt(FinalFlush(St))
    /\ bi' = bi + 1
    /\ pc' = "blocks_loop"
    /\ UNCHANGED <<k, lines, inputVars, renderVars, probeVars>>

\* the end of build_content_structure_from_text_blocks
BlocksReturn ==
    /\ pc = "blocks_loop" /\ bi = Len(blocks)
    /\ pc' = "structured"
    /\ UNCHANGED <<bi, k, lines, para_buffer, list_buffer, in_list, nodes, built,
                   inputVars, renderVars, probeVars>>

\* A call of either structurer
InitStruct ==
    /\ source \in {"spans", "blocks"}
    /\ pc = IF source = "spans" THEN "spans_loop" ELSE "blocks_loop"
    /\ spans \in (IF source = "spans" THEN SeqsUpTo(StructSpans, MaxSpans) ELSE {<< >>})
    /\ style_profile \in (IF source = "spans" THEN StructProfiles ELSE {<< >>})
    /\ blocks \in (IF source = "blocks" THEN SeqsUpTo(StructBlocks, MaxBlocks) ELSE {<< >>})
    /\ sample_spans = << >> /\ input_spans = << >>
    /\ LoopInit /\ RenderInit /\ ProbeInit

NextStruct ==
    \/ SpanIter \/ SpanReturn
    \/ BlockStart \/ LineIter \/ BlockEnd \/ BlocksReturn

SpecStruct == InitStruct /\ [][NextStruct]_vars

----------------------------------------------------------------------------
(* Calls of build_style_profile and infer_role_for_span *)

\* spans of a reference document: sizes 10.0, 20.0, 12.5, 15.5, a missing size,
\* 0.5 (rounds to 0), a sized span of blank text, a size that does not parse
ProfileSpans ==
    { [size |-> F(20), text |-> <<"a">>],
      [size |-> F(40), text |-> <<" ", "b">>],
      [size |-> F(25), text |-> <<"-", " ", "c">>],
      [size |-> F(31), text |-> <<"d">>, font |-> "Arial-Bold"],
      [text |-> <<"e">>],
      [size |-> F(1), text |-> <<"f">>],
      [size |-> F(40), text |-> <<" ">>],
      [size |-> Unparseable, text |-> <<"h">>] }

\* two long reference documents: one span more than sample_texts keeps, and
\* enough spans for the quantile branch of p90
LongSamples ==
    { [i \in 1..(SAMPLE_TEXTS_LIMIT + 1) |->
          IF i <= SAMPLE_TEXTS_LIMIT THEN [size |-> F(20), text |-> <<"a">>]
          ELSE [size |-> F(40), text |-> <<"b">>]],
      [i \in 1..100 |->
          IF i <= 80 THEN [size |-> F(20)]
          ELSE IF i <= 95 THEN [size |-> F(25)]
          ELSE [size |-> F(40)]] }

\* profiles that build_style_profile did not build
GivenProfiles ==
    { ExampleProfile,
      [heading_rules |-> << [level |-> 2, min_size |-> 30], [level |-> 1, min_size |-> 40] >>,
       size_map |-> [key \in {Str(12)} |-> <<"H", "3">>]],
      [size_map |-> [key \in {Str(10), Str(20)} |-> IF key = Str(20) THEN <<"H", "1">> ELSE <<"P">>]],
      [heading_rules |-> << [level |-> 12, min_size |-> 45], [level |-> 4] >>] }

ProbeSpans ==
    { [size |-> x] : x \in {None, F(1), I(10), F(25), I(15), I(16), I(20), I(30), I(45),
                            Unparseable} }
    \cup { [text |-> <<"e">>] }

BuildProfile ==
    /\ pc = "build"
    /\ style_profile' = build_style_profile(sample_spans)
    /\ pc' = "profiled"
    /\ UNCHANGED <<sample_spans, input_spans, blocks, spans, source, bi, lines, k,
                   para_buffer, list_buffer, in_list, nodes, built, renderVars, probeVars>>

InferRole ==
    /\ pc = "profiled"
    /\ \E s \in ProbeSpans :
         /\ probe' = s
         /\ role' = infer_role_for_span(s, style_profile)
    /\ pc' = "inferred"
    /\ UNCHANGED <<inputVars, bi, lines, k, para_buffer, list_buffer, in_list, nodes,
                   built, renderVars, reprofile>>

\* build_style_profile(profile["sample_texts"])
Reprofile ==
    /\ pc = "profiled"
    /\ reprofile' = build_style_profile(Get(style_profile, "sample_texts", << >>))
    /\ pc' = "reprofiled"
    /\ UNCHANGED <<inputVars, bi, lines, k, para_buffer, list_buffer, in_list, nodes,
                   built, renderVars, probe, role>>

InitProfile ==
    /\ source \in {"built", "given"}
    /\ pc = IF source = "built" THEN "build" ELSE "profiled"
    /\ sample_spans \in (IF source = "built"
                         THEN SeqsUpTo(ProfileSpans, MaxProfileSpans) \cup LongSamples
                         ELSE {<< >>})
    /\ style_profile \in (IF source = "built" THEN {<< >>} ELSE GivenProfiles)
    /\ input_spans = << >> /\ blocks = << >> /\ spans = << >>
    /\ LoopInit /\ RenderInit /\ ProbeInit

NextProfile == BuildProfile \/ InferRole \/ Reprofile

SpecProfile == InitProfile /\ [][NextProfile]_vars

----------------------------------------------------------------------------
(* Calls of build_style_profile on documents with list lines *)

ListSpans ==
    { [text |-> <<"-", " ", "a">>],
      [text |-> <<"-", "b">>],
      [text |-> <<MIDDLE_DOT, "x">>],
      [text |-> <<"*", " ", "c">>],
      [text |-> <<" ", BULLET, " ", "d">>],
      [text |-> <<EN_DASH, " ", "e">>],
      [text |-> <<"1", "2", ".", " ", "a">>],
      [text |-> <<"b", ")", " ", "c">>],
      [text |-> <<" ">>] }

\* documents of one text more and two texts more than the scan reads, whose
\* texts after the limit begin a bullet or a number, and one of exactly the limit
LongListDocs ==
    { [i \in 1..(SAMPLE_LIMIT + 1) |->
          IF i <= SAMPLE_LIMIT THEN [text |-> <<"a">>] ELSE [text |-> <<"-", " ", "z">>]],
      [i \in 1..(SAMPLE_LIMIT + 2) |->
          IF i <= SAMPLE_LIMIT THEN [text |-> <<"*", " ", "a">>]
          ELSE [text |-> <<"1", ".", " ", "z">>]],
      [i \in 1..(SAMPLE_LIMIT + 2) |->
          IF i = 2 THEN [text |-> <<" ">>]
          ELSE IF i <= SAMPLE_LIMIT THEN [text |-> <<"a">>]
          ELSE [text |-> <<EM_DASH, "z">>]],
      [i \in 1..SAMPLE_LIMIT |-> [text |-> <<"1", ".", " ", "a">>]] }

InitListStyle ==
    /\ pc = "build"
    /\ source = "built"
    /\ sample_spans \in SeqsUpTo(ListSpans, MaxListSpans) \cup LongListDocs
    /\ style_profile = << >>
    /\ input_spans = << >> /\ blocks = << >> /\ spans = << >>
    /\ LoopInit /\ RenderInit /\ ProbeInit

NextListStyle == BuildProfile

SpecListStyle == InitListStyle /\ [][NextListStyle]_vars

----------------------------------------------------------------------------
(* Calls of render_html *)

RenderNodes ==
    { [type |-> "heading", level |-> 1, text |-> <<"H", "i">>],
      [type |-> "heading", level |-> 0, text |-> <<"<", "b", ">">>],
      [type |-> "heading", level |-> 9, text |-> <<"a", "&", "b">>],
      [type |-> "title", text |-> <<"'">>],
      [type |-> "Heading", level |-> 2, text |-> <<"T">>],
      [type |-> "paragraph", text |-> <<"<", "s", "c", "r", "i", "p", "t", ">">>],
      [type |-> "paragraph", text |-> <<"x">>, page_break_after |-> TRUE],
      [type |-> "paragraph",
       runs |-> << [text |-> <<"<">>, bold |-> TRUE], [text |-> <<"\"">>, italic |-> TRUE],
                   [text |-> <<"x">>, bold |-> TRUE, italic |-> TRUE], [text |-> <<"&">>] >>],
      [type |-> "list", ordered |-> FALSE, items |-> << <<"<", "i", ">">>, <<"&">> >>],
      [type |-> "List", ordered |-> TRUE, items |-> << <<">">> >>],
      [type |-> "table", header |-> TRUE, rows |-> << << <<"<">> >>, << <<"&">>, <<"'">> >> >>],
      [type |-> "raw_html", html |-> <<"<", "b", ">", "&">>],
      [type |-> "raw_html", html |-> <<"<", "h", "1", ">">>],
      [type |-> "quote", text |-> <<"<">>],
      [type |-> "quote", content |-> <<">">>] }

RenderTitles == {None, Text(<< >>), Text(<<"<", "T", "&">>)}

RenderProfiles == {<< >>, [fonts_top |-> << [font |-> "Arial"] >>]}

\* render_html(content_structure, style_profile, title)
Render ==
    /\ pc = "render"
    /\ body_parts' = BodyParts(nodes, title)
    /\ html_doc' = render_html(nodes, style_profile, title)
    /\ pc' = "rendered"
    /\ UNCHANGED <<inputVars, bi, lines, k, para_buffer, list_buffer, in_list, nodes,
                   built, title, probeVars>>

InitRender ==
    /\ pc = "render"
    /\ nodes \in SeqsUpTo(RenderNodes, MaxNodes)
    /\ title \in RenderTitles
    /\ style_profile \in RenderProfiles
    /\ sample_spans = << >> /\ input_spans = << >> /\ blocks = << >> /\ spans = << >>
    /\ source = "given"
    /\ bi = 0 /\ lines = << >> /\ k = 0
    /\ para_buffer = << >> /\ list_buffer = << >> /\ in_list = FALSE /\ built = << >>
    /\ body_parts = << >> /\ html_doc = << >>
    /\ ProbeInit

NextRender == Render

SpecRender == InitRender /\ [][NextRender]_vars

----------------------------------------------------------------------------
(* The apply-style request *)

ApplySamples ==
    { << >>,
      << [size |-> F(20), text |-> <<"a">>], [size |-> F(40), text |-> <<"b">>] >>,
      << [size |-> F(24), text |-> <<"a">>], [size |-> F(24), text |-> <<"b">>],
         [size |-> F(48), text |-> <<"c">>] >> }

ApplySpans ==
    { [size |-> F(48), text |-> <<"T", "i", "t", "l", "e">>],
      [size |-> F(24), text |-> <<"H", "e", "l", "l", "o">>],
      [size |-> F(24), text |-> <<"-", " ", "i", "t", "e", "m">>],
      [size |-> F(24), text |-> <<" ">>],
      [size |-> None, text |-> << >>],
      [size |-> F(1), text |-> <<"x">>] }

ApplyBlocks ==
    { << >>,
      << [text |-> <<"H", "I", "\n", "-", " ", "a">>] >>,
      << [text |-> << >>], [text |-> <<"x", " ", "y">>] >> }

\* step 1: the style profile of the sample document
ApplyProfile ==
    /\ pc = "apply"
    /\ style_profile' = build_style_profile(sample_spans)
    /\ pc' = "select"
    /\ UNCHANGED <<sample_spans, input_spans, blocks, spans, source, bi, lines, k,
                   para_buffer, list_buffer, in_list, nodes, built, renderVars, probeVars>>

\* step 3: group the input spans and choose the structurer
ApplySelect ==
    /\ pc = "select"
    /\ spans' = spans_group_by_line(input_spans)
    /\ source' = SelectSource(spans')
    /\ pc' = IF source' = "spans" THEN "spans_loop" ELSE "blocks_loop"
    /\ UNCHANGED <<sample_spans, input_spans, blocks, style_profile, bi, lines, k,
                   para_buffer, list_buffer, in_list, nodes, built, renderVars, probeVars>>

\* step 4: the title is the text of the first heading
ApplyTitle ==
    /\ pc = "structured"
    /\ title' = FirstHeadingText(nodes)
    /\ pc' = "render"
    /\ UNCHANGED <<inputVars, bi, lines, k, para_buffer, list_buffer, in_list, nodes,
                   built, body_parts, html_doc, probeVars>>

InitApply ==
    /\ pc = "apply"
    /\ sample_spans \in ApplySamples
    /\ input_spans \in SeqsUpTo(ApplySpans, MaxInputSpans)
    /\ blocks \in ApplyBlocks
    /\ style_profile = << >> /\ spans = << >> /\ source = "none"
    /\ LoopInit /\ RenderInit /\ ProbeInit

NextApply ==
    \/ ApplyProfile \/ ApplySelect
    \/ SpanIter \/ SpanReturn
    \/ BlockStart \/ LineIter \/ BlockEnd \/ BlocksReturn
    \/ ApplyTitle \/ Render

SpecApply == InitApply /\ [][NextApply]_vars

----------------------------------------------------------------------------
(* Claims about the structurers *)

RECURSIVE Flatten(_)
Flatten(seqs) == IF seqs = << >> THEN << >> ELSE seqs[1] \o Flatten(Tail(seqs))

\* what is read from node i: a heading's text, a list's items, and a paragraph's
\* fragments, which must join to its text
ReadNode(i) ==
    IF nodes[i].type = "heading" THEN <<nodes[i].text>>
    ELSE IF nodes[i].type = "list" THEN nodes[i].items
    ELSE built[i]

\* the trimmed text of a span, its list lead stripped
TrimmedText(s) ==
    LET t == Strip(Get(s, "text", << >>))
    IN  IF ListLeadLen(t) > 0 THEN SubSeq(t, ListLeadLen(t) + 1, Len(t)) ELSE t

ExampleSpans ==
    << [size |-> I(24), text |-> <<"T", "i", "t", "l", "e">>],
       [size |-> I(12), text |-> <<"H", "e", "l", "l", "o", " ", "w", "o", "r", "l", "d", ".">>],
       [size |-> I(12), text |-> <<"-", " ", "i", "t", "e", "m", " ", "o", "n", "e">>],
       [size |-> I(12), text |-> <<"-", " ", "i", "t", "e", "m", " ", "t", "w", "o">>] >>

ExampleNodes ==
    << [type |-> "heading", level |-> 1, text |-> <<"T", "i", "t", "l", "e">>],
       [type |-> "paragraph",
        text |-> <<"H", "e", "l", "l", "o", " ", "w", "o", "r", "l", "d", ".">>],
       [type |-> "list", ordered |-> FALSE,
        items |-> << <<"i", "t", "e", "m", " ", "o", "n", "e">>,
                     <<"i", "t", "e", "m", " ", "t", "w", "o">> >>] >>

SpansStructured == pc = "structured" /\ source = "spans"

\* C1: build_content_structure_from_spans never reorders: read in order, the
\* output nodes give the trimmed span texts in input order, list leads stripped
\* (a paragraph's text is its fragments joined with one space), and the example
\* of section 8 yields exactly its three nodes.
C1_OrderPreserved ==
    SpansStructured =>
        /\ Flatten([i \in 1..Len(nodes) |-> ReadNode(i)])
             = [i \in 1..Len(spans) |-> TrimmedText(spans[i])]
        /\ \A i \in 1..Len(nodes) :
             nodes[i].type = "paragraph" => nodes[i].text = Join(built[i])
        /\ (spans = ExampleSpans /\ style_profile = ExampleProfile => nodes = ExampleNodes)

\* the example has been structured: a heading, a paragraph, then a list of two
C1_Witness ==
    /\ SpansStructured /\ spans = ExampleSpans /\ style_profile = ExampleProfile
    /\ Len(nodes) = 3 /\ nodes[3].type = "list" /\ Len(nodes[3].items) = 2

\* the number of input lines whose trimmed text is not empty
NonBlankSpans(sp) == Cardinality({i \in 1..Len(sp) : Strip(Get(sp[i], "text", << >>)) # << >>})
RECURSIVE NonBlankLines(_)
NonBlankLines(bs) ==
    IF bs = << >> THEN 0
    ELSE Cardinality({i \in 1..Len(SplitLines(Get(bs[1], "text", << >>))) :
                         Strip(SplitLines(Get(bs[1], "text", << >>))[i]) # << >>})
         + NonBlankLines(Tail(bs))

\* paragraph fragments + list items + headings of the output
RECURSIVE TotalLen(_)
TotalLen(seqs) == IF seqs = << >> THEN 0 ELSE Len(seqs[1]) + TotalLen(Tail(seqs))

\* C2: node count conservation, for both structurers: the number of non-blank
\* input lines equals paragraph fragments + list items + headings of the output.
C2_Conservation ==
    pc = "structured" =>
        TotalLen(built) = (IF source = "spans" THEN NonBlankSpans(spans)
                           ELSE NonBlankLines(blocks))

\* C2, the half that the code keeps: the text-block structurer conserves lines
C2_BlocksConservation ==
    (pc = "structured" /\ source = "blocks") => TotalLen(built) = NonBlankLines(blocks)

----------------------------------------------------------------------------
(* Claims about the style profile and role inference *)

Built == source = "built" /\ pc # "build"

\* a size that is present, parses, and does not round to 0 (0.5 rounds to 0)
UsableSize(s) ==
    /\ "size" \in DOMAIN s
    /\ \/ s.size.k = "int" /\ s.size.v # 0
       \/ s.size.k = "float" /\ s.size.h > 1
SizedCount(sp) == Cardinality({i \in 1..Len(sp) : UsableSize(sp[i])})

\* C3: for every non-empty span sequence the heading_rules of the built profile
\* have levels 1, 2, 3 in list order and min_size non-increasing in list order.
C3_RulesDescending ==
    (Built /\ sample_spans # << >> /\ SizedCount(sample_spans) > 0) =>
        LET rules == style_profile.heading_rules
        IN  /\ Len(rules) = 3
            /\ \A i \in 1..3 : rules[i].level = i
            /\ \A i \in 1..2 : rules[i].min_size >= rules[i + 1].min_size

\* the heading level a role names ("H2" -> 2)
LevelOf(r) == ValueOf(r[2])
IsHeading(r) == r[1] = "H"
ProbeSize(s) == round_size(Get(s, "size", None))

\* C4: for a built profile and two spans of rounded sizes A > B that both get a
\* heading role, the level for A is at most the level for B.
C4_Monotonic ==
    (Built /\ pc = "inferred" /\ IsHeading(role)) =>
        \A b \in ProbeSpans :
            LET rb == infer_role_for_span(b, style_profile)
            IN  (IsHeading(rb) /\ ProbeSize(probe).v > ProbeSize(b).v)
                    => LevelOf(role) <= LevelOf(rb)

\* the larger span got a strictly higher heading than a smaller heading span, in
\* a profile whose level-3 threshold lies above its level-2 threshold
C4_Witness ==
    /\ Built /\ pc = "inferred" /\ IsHeading(role)
    /\ style_profile.heading_rules[3].min_size > style_profile.heading_rules[2].min_size
    /\ \E b \in ProbeSpans :
         LET rb == infer_role_for_span(b, style_profile)
         IN  IsHeading(rb) /\ ProbeSize(probe).v > ProbeSize(b).v /\ LevelOf(role) < LevelOf(rb)

C9_RoundTrip ==
    (Built /\ pc = "reprofiled" /\ style_profile # << >>) =>
        /\ reprofile # << >>
        /\ reprofile.size_percentiles = style_profile.size_percentiles

BlankCount(sp) == Cardinality({i \in 1..Len(sp) : ~HasText(sp[i])})

\* C9 as amended: the same size_percentiles when every span with a usable size
\* has non-blank text, at most 30 spans have non-blank text, and at least one has.
C9_RoundTripOfSampledSpans ==
    (/\ Built /\ pc = "reprofiled"
     /\ \A i \in 1..Len(sample_spans) : UsableSize(sample_spans[i]) => HasText(sample_spans[i])
     /\ Len(sample_spans) - BlankCount(sample_spans) <= 30
     /\ Len(sample_spans) - BlankCount(sample_spans) >= 1) =>
        /\ reprofile # << >>
        /\ reprofile.size_percentiles = style_profile.size_percentiles

\* a round trip over four sized spans with text, one of size 15.5 and one 12.5
C9_Witness ==
    /\ Built /\ pc = "reprofiled" /\ Len(sample_spans) = 4
    /\ \A i \in 1..4 : UsableSize(sample_spans[i]) /\ HasText(sample_spans[i])
    /\ \E i \in 1..4 : sample_spans[i].size = F(31)
    /\ \E i \in 1..4 : sample_spans[i].size = F(25)
    /\ reprofile.size_percentiles = style_profile.size_percentiles
    /\ style_profile.size_percentiles.p75 # style_profile.size_percentiles.p50

\* the reference of C10
ReferenceRole(span, profile) ==
    LET size == ProbeSize(span)
        rules == Get(profile, "heading_rules", << >>)
        met == {i \in 1..Len(rules) : Get(rules[i], "min_size", 0) <= size.v}
        first == CHOOSE i \in met : \A j \in met : i <= j
        size_map == Get(profile, "size_map", << >>)
    IN  IF size = None \/ size.v = 0 \/ profile = << >> THEN <<"P">>
        ELSE IF met # {} THEN <<"H">> \o Str(rules[first].level)
        ELSE IF Str(size.v) \in DOMAIN size_map THEN size_map[Str(size.v)]
        ELSE <<"P">>

\* C10: infer_role_for_span equals the reference: P without a usable size or
\* with the empty profile, else H<level> of the first rule in stored order whose
\* min_size is <= the rounded size, else the size_map entry, else P; so a size
\* above every size of the reference document gets the first rule's level.
C10_Reference ==
    pc = "inferred" =>
        /\ role = ReferenceRole(probe, style_profile)
        /\ (/\ Built /\ SizedCount(sample_spans) > 0 /\ ProbeSize(probe) # None
            /\ ProbeSize(probe).v > style_profile.size_percentiles.max)
              => role = <<"H">> \o Str(style_profile.heading_rules[1].level)

\* a span whose size equals the min_size of the second rule, below the first
C10_Witness ==
    /\ Built /\ pc = "inferred" /\ style_profile # << >> /\ ProbeSize(probe) # None
    /\ Len(style_profile.heading_rules) = 3
    /\ ProbeSize(probe).v = style_profile.heading_rules[2].min_size
    /\ ProbeSize(probe).v < style_profile.heading_rules[1].min_size
    /\ role = <<"H", "2">>

----------------------------------------------------------------------------
(* Claims about the buffers of the structurers *)

\* the line the next loop iteration reads
NextLine ==
    IF pc = "spans_loop" THEN Strip(Get(spans[k + 1], "text", << >>)) ELSE lines[k + 1]

\* a loop iteration of either structurer
Iteration == pc \in {"spans_loop", "lines_loop"} /\ k' = k + 1

\* the two flushes after a loop of either structurer
EndOfInput ==
    \/ pc = "spans_loop" /\ pc' = "structured"
    \/ pc = "lines_loop" /\ pc' = "blocks_loop"

BuffersExclusive ==
    /\ ~(para_buffer # << >> /\ list_buffer # << >>)
    /\ (list_buffer # << >>) <=> in_list

\* a non-list line read in list mode: the pending items become the next node,
\* and the line's heading or fragment comes after it
ListClosedFirst ==
    (Iteration /\ in_list /\ ~is_list_line(NextLine)) =>
        /\ Len(nodes') > Len(nodes)
        /\ SubSeq(nodes', 1, Len(nodes)) = nodes
        /\ nodes'[Len(nodes) + 1] = [type |-> "list", ordered |-> FALSE, items |-> list_buffer]
        /\ list_buffer' = << >> /\ ~in_list'
        /\ \/ Len(nodes') = Len(nodes) + 1 /\ para_buffer' = <<NextLine>>
           \/ /\ Len(nodes') = Len(nodes) + 2 /\ para_buffer' = << >>
              /\ nodes'[Len(nodes) + 2].type = "heading"
              /\ nodes'[Len(nodes) + 2].text = NextLine

AtMostOneFinalNode == EndOfInput => Len(nodes') <= Len(nodes) + 1

\* C12: in both structurers, after every prefix of the lines the paragraph
\* buffer and the list buffer are not both non-empty and the list buffer is
\* non-empty exactly in list mode; a non-list line read in list mode appends the
\* List node of the pending items before its own heading or fragment; the two
\* final flushes together append at most one node.
C12_Buffers ==
    /\ []BuffersExclusive
    /\ [][ListClosedFirst /\ AtMostOneFinalNode]_vars

\* a paragraph fragment was read right after a list item: the list is the last
\* node and the fragment is alone in the paragraph buffer
C12_Witness ==
    /\ pc \in {"spans_loop", "lines_loop"}
    /\ k >= 2
    /\ para_buffer # << >> /\ Len(para_buffer) = 1
    /\ list_buffer = << >> /\ ~in_list
    /\ nodes # << >>
    /\ nodes[Len(nodes)].type = "list"

----------------------------------------------------------------------------
(* Claims about merging in build_content_structure_from_spans *)

\* C15: in the nodes build_content_structure_from_spans has appended, no
\* paragraph follows a paragraph and no list follows a list, every list has at
\* least one item and ordered = FALSE, and every paragraph is the join of at
\* least one fragment.
C15_MaximalMerge ==
    source = "spans" =>
        /\ \A i \in 1..(Len(nodes) - 1) :
               /\ ~(nodes[i].type = "paragraph" /\ nodes[i + 1].type = "paragraph")
               /\ ~(nodes[i].type = "list" /\ nodes[i + 1].type = "list")
        /\ \A i \in 1..Len(nodes) :
               /\ nodes[i].type = "list" =>
                      Len(nodes[i].items) >= 1 /\ nodes[i].ordered = FALSE
               /\ nodes[i].type = "paragraph" =>
                      Len(built[i]) >= 1 /\ nodes[i].text = Join(built[i])

\* a numbered line and a second list line merged into one unordered list, and
\* two fragments merged into the paragraph after it
C15_Witness ==
    /\ source = "spans" /\ pc = "structured"
    /\ Len(spans) = 4
    /\ Strip(spans[1].text)[1] \in DigitChars
    /\ Len(nodes) = 2
    /\ nodes[1].type = "list" /\ Len(nodes[1].items) = 2 /\ nodes[1].ordered = FALSE
    /\ nodes[2].type = "paragraph" /\ Len(built[2]) = 2

----------------------------------------------------------------------------
(* Claims about size_map *)

\* the distinct rounded sizes of the spans of a document
ObservedSizes(sp) ==
    {round_size(sp[i].size).v : i \in {j \in 1..Len(sp) : UsableSize(sp[j])}}

\* the role the percentiles p assign to the size s
ThresholdRole(s, p) ==
    IF s >= p.p90 THEN <<"H", "1">>
    ELSE IF s >= p.p75 THEN <<"H", "2">>
    ELSE IF s >= p.p50 THEN <<"H", "3">>
    ELSE <<"P">>

HasSizes == Built /\ SizedCount(sample_spans) > 0

\* C11 as stated: size_map holds H1, H2 or H3 for the observed sizes at or
\* above p50 and has no entry for an observed size below p50.
C11_KeysAtLeastP50 ==
    HasSizes =>
        LET p == style_profile.size_percentiles
            size_map == style_profile.size_map
        IN  /\ DOMAIN size_map
                 = {Str(s) : s \in {x \in ObservedSizes(sample_spans) : x >= p.p50}}
            /\ \A s \in ObservedSizes(sample_spans) :
                   s >= p.p50 => size_map[Str(s)] = ThresholdRole(s, p)

\* C11: size_map has one entry for every distinct observed size: H1 at or above
\* p90, else H2 at or above p75, else H3 at or above p50, else the explicit
\* entry P.
C11_KeysAllObserved ==
    HasSizes =>
        LET p == style_profile.size_percentiles
            size_map == style_profile.size_map
        IN  /\ DOMAIN size_map = {Str(s) : s \in ObservedSizes(sample_spans)}
            /\ \A s \in ObservedSizes(sample_spans) :
                   size_map[Str(s)] = ThresholdRole(s, p)

\* a profile whose size_map holds H1, H3 and, for a size below p50, P
C11_Witness ==
    /\ HasSizes
    /\ {style_profile.size_map[key] : key \in DOMAIN style_profile.size_map}
           = {<<"H", "1">>, <<"H", "3">>, <<"P">>}
    /\ \E s \in ObservedSizes(sample_spans) :
           s < style_profile.size_percentiles.p50 /\ style_profile.size_map[Str(s)] = <<"P">>

----------------------------------------------------------------------------
(* Claims about the two tiers of infer_role_for_span *)

\* the rules of a profile that the size s meets
MatchingRules(profile, s) ==
    LET rules == Get(profile, "heading_rules", << >>)
    IN  {i \in 1..Len(rules) : s >= rules[i].min_size}

\* the role of the size s by the rule scan alone
RuleOnlyRole(profile, s) ==
    LET met == MatchingRules(profile, s)
    IN  IF met = {} THEN <<"P">>
        ELSE <<"H">> \o Str(profile.heading_rules[CHOOSE i \in met : \A j \in met : i <= j].level)

\* C14: in a profile that build_style_profile returned, an observed size that
\* meets no heading rule has the entry P in size_map, so the role of every span
\* is the role the rule scan alone gives.
C14_FallbackIsP ==
    (Built /\ style_profile # << >>) =>
        /\ \A s \in ObservedSizes(sample_spans) :
               MatchingRules(style_profile, s) = {}
                   => Get(style_profile.size_map, Str(s), <<"P">>) = <<"P">>
        /\ (pc = "inferred" /\ Truthy(ProbeSize(probe)))
               => role = RuleOnlyRole(style_profile, ProbeSize(probe).v)

\* a span of an observed size below every threshold: no rule matched, the
\* size_map lookup ran and found the entry P
C14_Witness ==
    /\ Built /\ pc = "inferred" /\ style_profile # << >>
    /\ Truthy(ProbeSize(probe))
    /\ ProbeSize(probe).v \in ObservedSizes(sample_spans)
    /\ MatchingRules(style_profile, ProbeSize(probe).v) = {}
    /\ Str(ProbeSize(probe).v) \in DOMAIN style_profile.size_map
    /\ role = <<"P">>

----------------------------------------------------------------------------
(* Claims about list_style *)

\* the trimmed non-empty texts of a document, in order
NonEmptyTexts(sp) ==
    LET texted == SelectSeq(sp, HasText)
    IN  [i \in 1..Len(texted) |-> Strip(texted[i].text)]

\* the number of texts among the first 200 that begin with the glyph g
LeadingCount(sp, g) ==
    LET txts == NonEmptyTexts(sp)
    IN  Cardinality({i \in 1..Min2(Len(txts), 200) : txts[i][1] = g})

\* the document cut after its 200th non-empty text
FirstTexts(sp) ==
    LET at == {i \in 1..Len(sp) :
                  Cardinality({j \in 1..i : HasText(sp[j])}) <= 200}
    IN  [i \in 1..Cardinality(at) |-> sp[i]]

ListStyled == pc = "profiled" /\ sample_spans # << >>

SampleCountCapped ==
    ListStyled =>
        style_profile.list_style.sample_count = Min2(200, Len(NonEmptyTexts(sample_spans)))

TailIgnored ==
    ListStyled =>
        LET cut == build_style_profile(FirstTexts(sample_spans)).list_style
        IN  /\ style_profile.list_style.bullets = cut.bullets
            /\ style_profile.list_style.numbered = cut.numbered

BulletsRankedByTexts ==
    ListStyled =>
        LET bullets == style_profile.list_style.bullets
            glyphs == {BULLET, "-", EN_DASH, EM_DASH, "*", MIDDLE_DOT}
            led == {g \in glyphs : LeadingCount(sample_spans, g) > 0}
            listed == {bullets[i] : i \in 1..Len(bullets)}
        IN  /\ Len(bullets) = Min2(3, Cardinality(led))
            /\ Cardinality(listed) = Len(bullets)
            /\ listed \subseteq led
            /\ \A i \in 1..Len(bullets) : \A j \in (i + 1)..Len(bullets) :
                   LeadingCount(sample_spans, bullets[i]) >= LeadingCount(sample_spans, bullets[j])
            /\ \A g \in led \ listed : \A b \in listed :
                   LeadingCount(sample_spans, b) >= LeadingCount(sample_spans, g)

\* C13: list_style.sample_count is min(200, number of non-empty texts); the
\* texts after the 200th non-empty one change neither bullets nor numbered;
\* bullets is the up to three glyphs ranked by the number of scanned texts they
\* begin, each text counted once.
C13_ListStyle == SampleCountCapped /\ TailIgnored /\ BulletsRankedByTexts

----------------------------------------------------------------------------
(* Claims about the apply-style request *)

\* C6: the structure handed to the renderer is the text-block-based structure
\* exactly when span-based structuring of the grouped input spans yields no
\* node, and the span-based structure otherwise; "no grouped span" and "no
\* span-based node" always agree; the page is rendered from that structure.
C6_Selection ==
    pc \in {"structured", "render", "rendered"} =>
        LET grouped == spans_group_by_line(input_spans)
            span_nodes == build_content_structure_from_spans(grouped, style_profile)
            chosen == IF span_nodes = << >>
                      THEN build_content_structure_from_text_blocks(blocks)
                      ELSE span_nodes
        IN  /\ (source = "blocks") <=> (span_nodes = << >>)
            /\ (grouped = << >>) <=> (span_nodes = << >>)
            /\ nodes = chosen
            /\ pc = "rendered" =>
                   html_doc = render_html(chosen, style_profile, FirstHeadingText(chosen))

\* an input whose spans are all blank was structured from its text blocks
C6_Witness ==
    /\ pc = "rendered"
    /\ input_spans # << >>
    /\ source = "blocks"
    /\ nodes # << >>

----------------------------------------------------------------------------
(* Claims about render_html *)

SpecialChars == {"<", ">", "&", "\"", "'"}

Entities == {EscapeChar(c) : c \in SpecialChars}

SpecialCount(t) == Cardinality({i \in 1..Len(t) : t[i] \in SpecialChars})

EntityCount(t) == Cardinality({i \in 1..Len(t) : t[i] \in Entities})

RECURSIVE SumOver(_, _)
SumOver(xs, i) == IF i > Len(xs) THEN 0 ELSE xs[i] + SumOver(xs, i + 1)

NodeKind(node) == LowerType(Get(node, "type", ""))

\* special characters in the texts of a node that the claim lists
TextSpecials(node) ==
    LET ntype == NodeKind(node)
        runs == Get(node, "runs", << >>)
        items == Get(node, "items", << >>)
        rows == Get(node, "rows", << >>)
    IN  IF ntype \in {"heading", "title"} THEN SpecialCount(Get(node, "text", << >>))
        ELSE IF ntype \in {"paragraph", "p", "text"}
        THEN (IF runs # << >>
              THEN SumOver([i \in 1..Len(runs) |-> SpecialCount(runs[i].text)], 1)
              ELSE SpecialCount(Get(node, "text", << >>)))
        ELSE IF ntype = "list"
        THEN SumOver([i \in 1..Len(items) |-> SpecialCount(items[i])], 1)
        ELSE IF ntype = "table"
        THEN SumOver([i \in 1..Len(rows) |->
                 SumOver([j \in 1..Len(rows[i]) |-> SpecialCount(rows[i][j])], 1)], 1)
        ELSE IF ntype = "raw_html" THEN 0
        ELSE IF Get(node, "text", << >>) # << >> THEN SpecialCount(node.text)
        ELSE SpecialCount(Get(node, "content", << >>))

RawSpecials(node) ==
    IF NodeKind(node) = "raw_html" THEN SpecialCount(Get(node, "html", << >>)) ELSE 0

TitleSpecials == IF Truthy(title) THEN SpecialCount(title.s) ELSE 0

ScriptParagraph == [type |-> "paragraph", text |-> <<"<", "s", "c", "r", "i", "p", "t", ">">>]

\* C7: every special character of a heading text, paragraph text, run text,
\* list item, table cell, unknown-type text or of the title is in the page as
\* its entity, and the only special characters in the page are those of the
\* html fields of raw_html nodes; the paragraph "<script>" renders as
\* "&lt;script&gt;".
C7_Escaped ==
    pc = "rendered" =>
        /\ SpecialCount(html_doc)
             = SumOver([i \in 1..Len(nodes) |-> RawSpecials(nodes[i])], 1)
        /\ EntityCount(html_doc)
             = SumOver([i \in 1..Len(nodes) |-> TextSpecials(nodes[i])], 1) + TitleSpecials
        /\ \A i \in 1..Len(nodes) :
               nodes[i] = ScriptParagraph =>
                   \E j \in 1..Len(body_parts) :
                       body_parts[j] = <<"<p>", "&lt;", "s", "c", "r", "i", "p", "t", "&gt;", "</p>">>

\* the script paragraph rendered next to a raw_html node, under a title with
\* special characters
C7_Witness ==
    /\ pc = "rendered"
    /\ Truthy(title) /\ SpecialCount(title.s) > 0
    /\ Len(nodes) = 2
    /\ nodes[1] = ScriptParagraph
    /\ NodeKind(nodes[2]) = "raw_html"
    /\ SpecialCount(html_doc) = 3

\* <h1> tags of a page: written by the renderer or spelled out in raw_html
H1Count(doc) ==
    Cardinality({i \in 1..Len(doc) : doc[i] = "<h1>"})
    + Cardinality({i \in 1..(Len(doc) - 3) :
          doc[i] = "<" /\ doc[i + 1] = "h" /\ doc[i + 2] = "1" /\ doc[i + 3] = ">"})

\* heading nodes whose level clamps to 1
LevelOneHeadings(ns) ==
    Cardinality({i \in 1..Len(ns) :
        NodeKind(ns[i]) \in {"heading", "title"} /\ Get(ns[i], "level", 1) <= 1})

RawH1(ns) ==
    SumOver([i \in 1..Len(ns) |->
        IF NodeKind(ns[i]) = "raw_html" THEN H1Count(Get(ns[i], "html", << >>)) ELSE 0], 1)

DocumentStart == CHOOSE i \in 1..Len(html_doc) : html_doc[i] = "<div class='document'>"

\* the title's <h1> opens the document and the markup of all nodes follows it
TitleFirst ==
    LET part == <<"<h1>">> \o escape_text(title.s) \o <<"</h1>">>
    IN  /\ body_parts # << >>
        /\ body_parts[1] = part
        /\ Tail(body_parts) = NodeParts(nodes)
        /\ SubSeq(html_doc, DocumentStart + 1, DocumentStart + Len(part)) = part

\* C8 as stated: a title other than None is rendered as the first <h1>, and
\* with title None the <h1> elements are the heading nodes clamping to level 1.
C8_TitleWhenSupplied ==
    pc = "rendered" =>
        /\ title # None => TitleFirst
        /\ title = None => H1Count(html_doc) = LevelOneHeadings(nodes)

\* C8: a non-empty title is rendered as one <h1> before the markup of every
\* node, whether or not a node is a heading; with title None or "" nothing is
\* injected; the <h1> tags of the page are the injected title, the heading
\* nodes whose level clamps to 1 and the <h1> tags of raw_html nodes (one
\* for the single node Heading{1, "Hi"} without title).
C8_TitleWhenNonEmpty ==
    pc = "rendered" =>
        /\ Truthy(title) =>
               /\ TitleFirst
               /\ H1Count(html_doc) = 1 + LevelOneHeadings(nodes) + RawH1(nodes)
        /\ ~Truthy(title) =>
               /\ body_parts = NodeParts(nodes)
               /\ H1Count(html_doc) = LevelOneHeadings(nodes) + RawH1(nodes)
        /\ (title = None /\ nodes = << [type |-> "heading", level |-> 1, text |-> <<"H", "i">>] >>) =>
               /\ H1Count(html_doc) = 1
               /\ body_parts = << <<"<h1>", "H", "i", "</h1>">> >>

\* a title rendered above a level-1 heading: two <h1> in the page
C8_Witness ==
    /\ pc = "rendered"
    /\ Truthy(title)
    /\ Len(nodes) = 2
    /\ LevelOneHeadings(nodes) = 1
    /\ H1Count(html_doc) = 2
    /\ body_parts[1] = <<"<h1>">> \o escape_text(title.s) \o <<"</h1>">>

====
